---------------------------- MODULE Spec2Model ----------------------------
(***************************************************************************)
(* Shopping-cart service: the DynamoDB cart table, the delete-from-cart    *)
(* SQS queue and the four Lambda handlers that act on them                 *)
(*   add_to_cart.py, migrate_cart.py, checkout_cart.py, delete_from_cart.py*)
(*                                                                         *)
(* A handler that touches the store once is one action.  migrate_cart and  *)
(* checkout_cart touch it several times (worker threads, a batch delete),  *)
(* so each is a small process whose position is part of the state and      *)
(* whose steps interleave with every other handler.                        *)
(*                                                                         *)
(* Keys are pairs: the partition key f"user#{sub}" is <<"user", sub>>,     *)
(* f"cart#{cart_id}" is <<"cart", cart_id>>, and the sort key              *)
(* f"product#{id}" is <<"product", id>>.                                   *)
(*                                                                         *)
(* Left out: DynamoDB's lazy TTL garbage collection, infrastructure        *)
(* failures of the queries and of queue.send_message (a failing per-item   *)
(* update_item of migrate_cart IS modelled), and stale results of the      *)
(* eventually-consistent source query of migrate_cart.                     *)
(***************************************************************************)
EXTENDS Integers, Sequences, FiniteSets, TLC

\* ------------------------------------------------------------- bounds
\* Handler invocations (add, migrate, checkout, delete-from-cart) in one
\* behaviour.
MaxOps == 2
\* Largest quantity one add_to_cart request adds.
MaxAddQty == 1
\* Largest quantity one add_to_cart request removes.
MaxRemoveQty == 2
\* Largest batch of SQS records handed to one delete_from_cart invocation.
MaxBatch == 2
\* ---------------------------------------------------- program constants
\* generate_ttl's unit: one day in seconds.
DaySeconds == 86400
\* generate_ttl()'s default number of days (the "short default" TTL).
DefaultDays == 1
\* generate_ttl(7) for logged-in users.
AuthDays == 7
\* generate_ttl(days=30) for migrated items.
MigratedDays == 30

\* --------------------------------------------------------- input domains
CartIds == {"c1"}
UserIds == {"u1"}
\* "no Authorization header / no authorizer claims"
NoUser == "none"
\* The catalog, in sort-key order; "Z" is a product id the catalog lacks.
Catalog == <<"A", "B">>
Products == {Catalog[i] : i \in 1..Len(Catalog)}
ProductIds == Products \cup {"Z"}
Deltas == (0 - MaxRemoveQty)..MaxAddQty
CheckoutSlots == {1, 2}
\* The carts the table holds at the start (product -> quantity): each is what
\* add_to_cart requests at time 0 leave behind.
AnonCarts ==
    {[p \in {} |-> 0],
     [p \in {"A"} |-> 2],
     [p \in {"B"} |-> 0],
     [p \in {"A", "B"} |-> IF p = "A" THEN 1 ELSE 2]}
UserCarts ==
    {[p \in {} |-> 0],
     [p \in {"A"} |-> 1],
     [p \in {"A", "B"} |-> IF p = "A" THEN 2 ELSE 1]}

VARIABLES
    table,      \* the DynamoDB table: key <<pk, sk>> -> attributes, for the items present
    queue,      \* the SQS queue: sequence of message bodies not yet deleted
    now,        \* the clock generate_ttl reads: one second passes per invocation
    mig,        \* the migrate_cart invocation in flight (or the last one finished)
    chk,        \* the checkout_cart invocations, one per slot
    last,       \* the step taken last and, for a handler that returned, its outcome
    hist,       \* history of the migration, for stating the end-to-end claims
    ops         \* handler invocations so far

vars == <<table, queue, now, mig, chk, last, hist, ops>>

\* ------------------------------------------------------------ keys
UserPk(user_id) == <<"user", user_id>>
CartPk(cart_id) == <<"cart", cart_id>>
ProductSk(product_id) == <<"product", product_id>>
Pks == {UserPk(u) : u \in UserIds} \cup {CartPk(c) : c \in CartIds}
Sks == {ProductSk(p) : p \in Products}
Keys == Pks \X Sks

\* ------------------------------------------------ the DynamoDB primitives
Present(tbl, k) == k \in DOMAIN tbl

\* A numeric attribute that does not exist counts as 0 for ADD.
QuantityOf(tbl, k) == IF Present(tbl, k) THEN tbl[k].quantity ELSE 0

Put(tbl, k, attrs) ==
    [kk \in (DOMAIN tbl) \cup {k} |-> IF kk = k THEN attrs ELSE tbl[kk]]

\* delete_item: removes the item; deleting a missing item is a no-op.
DeleteItem(tbl, k) == [kk \in (DOMAIN tbl) \ {k} |-> tbl[kk]]

\* UpdateExpression "ADD #quantity :val SET #expirationTime = :ttl,
\* #productDetail = :productDetail": creates the item if it is missing.
\* "SET #quantity = :val" in place of "ADD #quantity :val".
TableUpdateSet(tbl, k, val, ttl, detail) ==
    Put(tbl, k, [quantity |-> val, expirationTime |-> ttl, productDetail |-> detail])

TableUpdate(tbl, k, val, ttl, detail) ==
    Put(tbl, k, [quantity |-> QuantityOf(tbl, k) + val,
                 expirationTime |-> ttl,
                 productDetail |-> detail])

\* "quantity >= :limit" off by one.
ConditionHoldsOffByOne(tbl, k, limit) ==
    Present(tbl, k) /\ tbl[k].quantity >= limit - 1

\* "attribute_not_exists(quantity) OR quantity >= :limit".
ConditionHoldsIfMissing(tbl, k, limit) ==
    ~Present(tbl, k) \/ tbl[k].quantity >= limit

\* ConditionExpression "quantity >= :limit": false when the item (and so the
\* attribute) does not exist.

ConditionHolds(tbl, k, limit) == Present(tbl, k) /\ tbl[k].quantity >= limit

\* table.query(pk = ..., begins_with(sk, "product#")): the items under pk, in
\* sort-key order, each with its key attributes.
ItemAt(tbl, pk, sk) ==
    [pk |-> pk, sk |-> sk,
     quantity |-> tbl[<<pk, sk>>].quantity,
     expirationTime |-> tbl[<<pk, sk>>].expirationTime,
     productDetail |-> tbl[<<pk, sk>>].productDetail]

Query(tbl, pk) ==
    LET sks == [i \in 1..Len(Catalog) |-> ProductSk(Catalog[i])]
        here(sk) == Present(tbl, <<pk, sk>>)
        found == SelectSeq(sks, here)
    IN [i \in 1..Len(found) |-> ItemAt(tbl, pk, found[i])]

\* ------------------------------------------------ shared.py and utils.py
\* generate_ttl(days): the epoch `days` days from now.
generate_ttl(t, days) == t + days * DaySeconds

\* get_product_from_external_service: the product's snapshot as the catalog
\* has it at time t (the catalog changes as time passes), or
\* NotFoundException for an id the catalog lacks.
get_product_from_external_service(product_id, t) ==
    IF product_id \in Products
    THEN [found |-> TRUE, product |-> [productId |-> product_id, rev |-> t]]
    ELSE [found |-> FALSE, product |-> [productId |-> product_id, rev |-> 0]]

Abs(n) == IF n < 0 THEN 0 - n ELSE n


\* ------------------------------------------------------- add_to_cart.py
\* Lines 67-77 and 100: the ttl the write carries.  Line 100 recomputes the
\* ttl with generate_ttl() on the quantity >= 0 branch.
add_ttl(t, user_sub, quantity) ==
    LET ttl == IF user_sub # NoUser
               THEN generate_ttl(t, AuthDays)
               ELSE generate_ttl(t, DefaultDays)
    IN IF quantity < 0 THEN ttl ELSE generate_ttl(t, DefaultDays)

\* The partition key with the credential ignored.
add_pk_CartOnly(cart_id, user_sub) == CartPk(cart_id)

\* Lines 67-76: the partition key of the caller's regime.
add_pk(cart_id, user_sub) ==
    IF user_sub # NoUser THEN UserPk(user_sub) ELSE CartPk(cart_id)

\* Lines 79-116: the update_item call; an unmet ConditionExpression raises
\* ConditionalCheckFailedException, which the handler does not catch.
add_write(tbl, t, cart_id, user_sub, product_id, quantity, product) ==
    LET k == <<add_pk(cart_id, user_sub), ProductSk(product_id)>>
        ttl == add_ttl(t, user_sub, quantity)
    IN IF quantity < 0 /\ ~ConditionHolds(tbl, k, Abs(quantity))
       THEN [table |-> tbl, status |-> "ConditionalCheckFailedException"]
       ELSE [table |-> TableUpdate(tbl, k, quantity, ttl, product),
             status |-> "200"]

\* The handler without the return of lines 59-65.
add_to_cart_NoReturn(tbl, t, hasBody, cart_id, user_sub, product_id, quantity) ==
    IF ~hasBody
    THEN [table |-> tbl, status |-> "400"]
    ELSE LET r == get_product_from_external_service(product_id, t)
             w == add_write(tbl, t, cart_id, user_sub, product_id, quantity,
                            r.product)
         IN IF ~r.found THEN [table |-> w.table, status |-> "404"] ELSE w

\* lambda_handler, lines 28-125.
add_to_cart(tbl, t, hasBody, cart_id, user_sub, product_id, quantity) ==
    IF ~hasBody
    THEN [table |-> tbl, status |-> "400"]
    ELSE LET r == get_product_from_external_service(product_id, t)
         IN IF ~r.found
            THEN [table |-> tbl, status |-> "404"]
            ELSE add_write(tbl, t, cart_id, user_sub, product_id, quantity,
                           r.product)


\* ------------------------------------------------------ migrate_cart.py
\* update_item writing the source quantity over the target's.
update_item_Overwrite(tbl, t, user_id, item) ==
    TableUpdateSet(tbl, <<UserPk(user_id), item.sk>>, item.quantity,
                   generate_ttl(t, MigratedDays), item.productDetail)

\* update_item moving the entry: the ADD to the user's entry and the source
\* entry deleted inline.
update_item_Move(tbl, t, user_id, item) ==
    DeleteItem(TableUpdate(tbl, <<UserPk(user_id), item.sk>>, item.quantity,
                           generate_ttl(t, MigratedDays), item.productDetail),
               <<item.pk, item.sk>>)

\* update_item as a read-modify-write: the quantity the invocation read at
\* its start plus the source quantity, written with SET.
update_item_ReadModifyWrite(tbl, t, user_id, item) ==
    TableUpdateSet(tbl, <<UserPk(user_id), item.sk>>,
                   (IF item.sk \in DOMAIN hist.pre THEN hist.pre[item.sk] ELSE 0)
                      + item.quantity,
                   generate_ttl(t, MigratedDays), item.productDetail)

\* update_item (lines 22-45), run by one worker thread.
update_item(tbl, t, user_id, item) ==
    TableUpdate(tbl, <<UserPk(user_id), item.sk>>, item.quantity,
                generate_ttl(t, MigratedDays), item.productDetail)

\* json.dumps(item, default=handle_decimal_type) (lines 97-98): the message
\* body holds every attribute of the source item, its keys included.
\* The message of an item keyed by the target identity.
MessageBodyOfTarget(user_id, item) ==
    [pk |-> UserPk(user_id), sk |-> item.sk, quantity |-> item.quantity,
     expirationTime |-> item.expirationTime,
     productDetail |-> item.productDetail]

MessageBody(user_id, item) ==
    [pk |-> item.pk, sk |-> item.sk, quantity |-> item.quantity,
     expirationTime |-> item.expirationTime,
     productDetail |-> item.productDetail]

MigIdle ==
    [pc |-> "idle", cart_id |-> "", user_id |-> NoUser, unauth_cart |-> <<>>,
     i |-> 1, threads |-> <<>>, status |-> "", product_list |-> <<>>]

\* Lines 57-78 with the KeyError of line 63 not ending the invocation.
migrate_begin_NoReturn(tbl, cart_id, user_id) ==
    LET items == Query(tbl, CartPk(cart_id))
    IN [pc |-> IF Len(items) = 0 THEN "join" ELSE "start_thread",
        cart_id |-> cart_id, user_id |-> user_id, unauth_cart |-> items,
        i |-> 1, threads |-> [j \in 1..Len(items) |-> "unstarted"],
        status |-> "", product_list |-> <<>>]

\* Lines 57-78: resolve the user or return 400; query the anonymous cart.
migrate_begin(tbl, cart_id, user_id) ==
    IF user_id = NoUser
    THEN [MigIdle EXCEPT !.pc = "done", !.cart_id = cart_id, !.status = "400"]
    ELSE LET items == Query(tbl, CartPk(cart_id))
         IN [pc |-> IF Len(items) = 0 THEN "join" ELSE "start_thread",
             cart_id |-> cart_id, user_id |-> user_id, unauth_cart |-> items,
             i |-> 1, threads |-> [j \in 1..Len(items) |-> "unstarted"],
             status |-> "", product_list |-> <<>>]

\* Lines 106-120: sk, quantity and productDetail of the user's items, the
\* "product#" prefix taken off the sk.
product_list_of(tbl, user_id) ==
    LET items == Query(tbl, UserPk(user_id))
    IN [j \in 1..Len(items) |->
          [sk |-> items[j].sk[2], quantity |-> items[j].quantity,
           productDetail |-> items[j].productDetail]]

\* ----------------------------------------------------- checkout_cart.py
ChkIdle ==
    [pc |-> "idle", user_id |-> NoUser, cart_items |-> <<>>, pending |-> {},
     status |-> "", fresh |-> {}, alone |-> TRUE]

\* The key line 59 gives to batch.delete_item.
checkout_key(item) == <<item.pk, item.sk>>

\* Lines 28-60: resolve the user or return 400; query the user's cart with a
\* consistent read; hand every item's key to the batch writer, which sends
\* the deletes when the with-block exits (fewer than 25 items are buffered).
checkout_begin(tbl, user_id) ==
    IF user_id = NoUser
    THEN [ChkIdle EXCEPT !.pc = "done", !.status = "400"]
    ELSE LET items == Query(tbl, UserPk(user_id))
         IN [pc |-> "flush", user_id |-> user_id, cart_items |-> items,
             pending |-> {checkout_key(items[j]) : j \in 1..Len(items)},
             status |-> "", fresh |-> {}, alone |-> TRUE]

\* -------------------------------------------------- delete_from_cart.py
\* json.loads(item["body"]) (line 29).
json_loads(body) == [pk |-> body.pk, sk |-> body.sk]

\* The loop with line 29 ahead of line 27: item_body is bound when read.
RECURSIVE reaper_loop_Parsed(_, _, _, _)
reaper_loop_Parsed(records, i, bound, buffer) ==
    IF i > Len(records)
    THEN [raised |-> FALSE, buffer |-> buffer]
    ELSE LET item_body == json_loads(records[i])
         IN reaper_loop_Parsed(records, i + 1, TRUE,
                               buffer \cup {<<item_body.pk, item_body.sk>>})

\* The loop of lines 26-31.  item_body is a local of the handler that line
\* 29 assigns: line 27 reads it first, and reading it unbound raises
\* UnboundLocalError.  `buffer` is what batch.delete_item has been given.
RECURSIVE reaper_loop(_, _, _, _)
reaper_loop(records, i, bound, buffer) ==
    IF i > Len(records)
    THEN [raised |-> FALSE, buffer |-> buffer]
    ELSE IF ~bound
         THEN [raised |-> TRUE, buffer |-> buffer]
         ELSE LET item_body == json_loads(records[i])
              IN reaper_loop(records, i + 1, TRUE,
                             buffer \cup {<<item_body.pk, item_body.sk>>})

RECURSIVE DeleteAll(_, _)
DeleteAll(tbl, ks) ==
    IF ks = {} THEN tbl
    ELSE LET k == CHOOSE x \in ks : TRUE
         IN DeleteAll(DeleteItem(tbl, k), ks \ {k})

\* lambda_handler (lines 16-35).  The batch writer's __exit__ sends what was
\* buffered, also when the with-block is left by an exception.
delete_from_cart(tbl, records) ==
    LET r == reaper_loop(records, 1, FALSE, {})
    IN [table |-> DeleteAll(tbl, r.buffer),
        status |-> IF r.raised THEN "UnboundLocalError" ELSE "200"]

\* ------------------------------------------------------------ history
CartQty(tbl, pk) ==
    [sk \in {x \in Sks : Present(tbl, <<pk, x>>)} |-> tbl[<<pk, sk>>].quantity]

\* A write to the table by a handler other than the running migration.  An
\* entry that is gone takes its account of accepted deltas with it.
Foreign(tbl2) ==
    IF tbl2 # table
    THEN [hist EXCEPT !.clean = FALSE, !.quiet = FALSE, !.streak = 0,
                      !.acc = [k \in Keys |-> IF Present(tbl2, k) THEN @[k] ELSE 0]]
    ELSE hist

\* The account of entry k after a write of delta d was accepted.
Credit(h, k, d) == [h EXCEPT !.acc[k] = @ + d]

\* Keys a write created, noted by every checkout that is between its query
\* and its return and owns the key's partition.
Noting(tbl2) ==
    [s \in CheckoutSlots |->
        IF chk[s].pc = "flush"
        THEN [chk[s] EXCEPT !.fresh = @ \cup
                {k \in DOMAIN tbl2 : /\ ~Present(table, k)
                                     /\ k[1] = UserPk(chk[s].user_id)}]
        ELSE chk[s]]

Step(op, status, user, product_id, quantity, keys) ==
    [op |-> op, status |-> status, user |-> user, product_id |-> product_id,
     quantity |-> quantity, keys |-> keys]

\* ------------------------------------------------------------ actions
AddToCart(hasBody, cart_id, user_sub, product_id, quantity) ==
    /\ ops < MaxOps
    /\ LET r == add_to_cart(table, now, hasBody, cart_id, user_sub,
                            product_id, quantity)
       IN /\ table' = r.table
          /\ hist' = IF r.status = "200"
                     THEN Credit(Foreign(r.table),
                                 <<add_pk(cart_id, user_sub), ProductSk(product_id)>>,
                                 quantity)
                     ELSE Foreign(r.table)
          /\ chk' = Noting(r.table)
          /\ last' = IF r.status = "400"
                     THEN Step("AddToCart", r.status, user_sub, "", 0, {})
                     ELSE IF r.status = "404"
                     THEN Step("AddToCart", r.status, user_sub, product_id, 0, {})
                     ELSE Step("AddToCart", r.status, user_sub, product_id, quantity,
                               {<<add_pk(cart_id, user_sub), ProductSk(product_id)>>})
    /\ ops' = ops + 1
    /\ now' = now + 1
    /\ UNCHANGED <<queue, mig>>

MigrateStart(cart_id, user_id) ==
    /\ ops < MaxOps
    /\ mig.pc \in {"idle", "done"}
    /\ mig' = migrate_begin(table, cart_id, user_id)
    /\ hist' = IF mig'.status = "400" THEN hist
               ELSE [hist EXCEPT !.pre = CartQty(table, UserPk(user_id)),
                                 !.clean = TRUE,
                                 !.quiet = TRUE,
                                 !.qlen = Len(queue),
                                 !.streak = IF hist.cart_id = cart_id /\ hist.user_id = user_id
                                            THEN @ ELSE 0,
                                 !.cart_id = cart_id,
                                 !.user_id = user_id]
    /\ last' = Step("MigrateStart", mig'.status, user_id, "", 0, {})
    /\ ops' = ops + 1
    /\ now' = now + 1
    /\ UNCHANGED <<table, queue, chk>>

\* Lines 88-92: start the worker thread of item i.
MigrateStartThread ==
    /\ mig.pc = "start_thread"
    /\ mig' = [mig EXCEPT !.threads[mig.i] = "running", !.pc = "send"]
    /\ last' = Step("MigrateStartThread", "", mig.user_id, "", 0, {})
    /\ UNCHANGED <<table, queue, now, chk, hist, ops>>

\* Lines 94-98: send item i's message; on to the next item, or to the joins.
MigrateSend ==
    /\ mig.pc = "send"
    /\ queue' = Append(queue, MessageBody(mig.user_id, mig.unauth_cart[mig.i]))
    /\ mig' = [mig EXCEPT !.i = @ + 1,
                          !.pc = IF mig.i = Len(mig.unauth_cart)
                                 THEN "join" ELSE "start_thread"]
    /\ last' = Step("MigrateSend", "", mig.user_id, "", 0, {})
    /\ UNCHANGED <<table, now, chk, hist, ops>>

\* A worker thread runs update_item; the store applies the update or fails
\* it, and an exception ends the thread alone.
MigrateThread(j, ok) ==
    /\ j \in DOMAIN mig.threads
    /\ mig.threads[j] = "running"
    /\ table' = IF ok THEN update_item(table, now, mig.user_id, mig.unauth_cart[j])
                ELSE table
    /\ mig' = [mig EXCEPT !.threads[j] = IF ok THEN "done" ELSE "failed"]
    /\ hist' = IF ok
               THEN Credit(hist, <<UserPk(mig.user_id), mig.unauth_cart[j].sk>>,
                           mig.unauth_cart[j].quantity)
               ELSE [hist EXCEPT !.clean = FALSE]
    /\ chk' = Noting(table')
    /\ last' = Step("MigrateThread", IF ok THEN "200" ELSE "StoreError",
                    mig.user_id, mig.unauth_cart[j].sk[2],
                    mig.unauth_cart[j].quantity,
                    {<<UserPk(mig.user_id), mig.unauth_cart[j].sk>>})
    /\ UNCHANGED <<queue, now, ops>>

\* The return without the joins of lines 100-101.
MigrateFinishNoJoin ==
    /\ mig.pc = "join"
    /\ mig' = [mig EXCEPT !.pc = "done", !.status = "200",
                          !.product_list = product_list_of(table, mig.user_id)]
    /\ hist' = [hist EXCEPT !.streak = 0]
    /\ last' = Step("MigrateFinish", "200", mig.user_id, "", 0, {})
    /\ UNCHANGED <<table, queue, now, chk, ops>>

\* Lines 100-128: join every thread, read the user's cart back, return 200.
MigrateFinish ==
    /\ mig.pc = "join"
    /\ \A j \in DOMAIN mig.threads : mig.threads[j] \in {"done", "failed"}
    /\ mig' = [mig EXCEPT !.pc = "done", !.status = "200",
                          !.product_list = product_list_of(table, mig.user_id)]
    /\ hist' = IF ~hist.clean THEN [hist EXCEPT !.streak = 0]
               ELSE IF hist.streak = 0
               THEN [hist EXCEPT !.streak = 1, !.base = hist.pre,
                                 !.first_post = CartQty(table, UserPk(mig.user_id)),
                                 !.src = mig.unauth_cart]
               ELSE [hist EXCEPT !.streak = @ + 1]
    /\ last' = Step("MigrateFinish", "200", mig.user_id, "", 0, {})
    /\ UNCHANGED <<table, queue, now, chk, ops>>

\* Slot 2 serves an invocation that arrives while slot 1 is busy.
CheckoutStart(s, user_id) ==
    /\ ops < MaxOps
    /\ chk[s].pc \in {"idle", "done"}
    /\ s = 2 => chk[1].pc = "flush"
    /\ LET c == checkout_begin(table, user_id)
           overlap == \E o \in CheckoutSlots \ {s} :
                         chk[o].pc = "flush" /\ chk[o].user_id = user_id
       IN chk' = [o \in CheckoutSlots |->
                    IF o = s THEN [c EXCEPT !.alone = ~overlap]
                    ELSE IF chk[o].pc = "flush" /\ chk[o].user_id = user_id
                              /\ c.pc = "flush"
                    THEN [chk[o] EXCEPT !.alone = FALSE]
                    ELSE chk[o]]
    /\ last' = Step("CheckoutStart", chk'[s].status, user_id, "", 0, {})
    /\ ops' = ops + 1
    /\ now' = now + 1
    /\ UNCHANGED <<table, queue, mig, hist>>

\* A flush that deletes what the user's partition holds now, not what the
\* query returned.
CheckoutDeleteCurrent(s, k) ==
    /\ chk[s].pc = "flush"
    /\ chk[s].pending # {}
    /\ k[1] = UserPk(chk[s].user_id)
    /\ Present(table, k)
    /\ table' = DeleteItem(table, k)
    /\ chk' = [chk EXCEPT ![s].pending = @ \ {k}]
    /\ hist' = Foreign(table')
    /\ last' = Step("CheckoutDelete", "", chk[s].user_id, "", 0, {k})
    /\ UNCHANGED <<queue, now, mig, ops>>

\* The batch writer's flush: BatchWriteItem deletes the keys one by one, in
\* no order, and not as a transaction.
CheckoutDelete(s, k) ==
    /\ chk[s].pc = "flush"
    /\ k \in chk[s].pending
    /\ table' = DeleteItem(table, k)
    /\ chk' = [chk EXCEPT ![s].pending = @ \ {k}]
    /\ hist' = Foreign(table')
    /\ last' = Step("CheckoutDelete", "", chk[s].user_id, "", 0, {k})
    /\ UNCHANGED <<queue, now, mig, ops>>

\* Lines 62-73: return the items read.
CheckoutReturn(s) ==
    /\ chk[s].pc = "flush"
    /\ chk[s].pending = {}
    /\ chk' = [chk EXCEPT ![s].pc = "done", ![s].status = "200"]
    /\ last' = Step("CheckoutReturn", "200", chk[s].user_id, "", 0, {})
    /\ UNCHANGED <<table, queue, now, mig, hist, ops>>

\* One delete_from_cart invocation on a batch of queued messages.  SQS
\* deletes the batch when the handler returns and redelivers it when the
\* handler raises.
Reaper(batch) ==
    /\ ops < MaxOps
    /\ Cardinality(batch) <= MaxBatch
    /\ LET idx == SelectSeq([j \in 1..Len(queue) |-> j], LAMBDA j : j \in batch)
           records == [j \in 1..Len(idx) |-> queue[idx[j]]]
           r == delete_from_cart(table, records)
           keep == SelectSeq([j \in 1..Len(queue) |-> j], LAMBDA j : j \notin batch)
       IN /\ table' = r.table
          /\ queue' = IF r.status = "200"
                      THEN [j \in 1..Len(keep) |-> queue[keep[j]]]
                      ELSE queue
          /\ hist' = Foreign(r.table)
          /\ last' = Step("Reaper", r.status, NoUser, "", Len(records),
                          {<<records[j].pk, records[j].sk>> : j \in 1..Len(records)})
    /\ ops' = ops + 1
    /\ now' = now + 1
    /\ UNCHANGED <<mig, chk>>

\* At-least-once delivery: SQS hands messages that are still in the queue to
\* delete_from_cart again, as often as it takes.  The handler reads no clock,
\* and redeliveries are not counted as new invocations.
Redelivery(batch) ==
    /\ batch # {}
    /\ Cardinality(batch) <= MaxBatch
    /\ LET idx == SelectSeq([j \in 1..Len(queue) |-> j], LAMBDA j : j \in batch)
           records == [j \in 1..Len(idx) |-> queue[idx[j]]]
           r == delete_from_cart(table, records)
           keep == SelectSeq([j \in 1..Len(queue) |-> j], LAMBDA j : j \notin batch)
       IN /\ table' = r.table
          /\ queue' = IF r.status = "200"
                      THEN [j \in 1..Len(keep) |-> queue[keep[j]]]
                      ELSE queue
          /\ hist' = Foreign(r.table)
          /\ last' = Step("Reaper", r.status, NoUser, "", Len(records),
                          {<<records[j].pk, records[j].sk>> : j \in 1..Len(records)})
    /\ UNCHANGED <<now, ops, mig, chk>>

\* A delivery that holds a message for entry k.
DeliveryOf(k) ==
    \E batch \in SUBSET (1..Len(queue)) :
       /\ \E j \in batch : <<queue[j].pk, queue[j].sk>> = k
       /\ Redelivery(batch)

\* ------------------------------------------------------ specification
EmptyTable == [k \in {} |-> 0]

\* The table holding anonymous cart a and user cart u, as add_to_cart
\* requests for their quantities at time 0 write them.
InitTable(a, u) ==
    LET cpk == CartPk("c1")
        upk == UserPk("u1")
        ks == {<<cpk, ProductSk(p)>> : p \in DOMAIN a}
                \cup {<<upk, ProductSk(p)>> : p \in DOMAIN u}
    IN [k \in ks |->
          [quantity |-> IF k[1] = cpk THEN a[k[2][2]] ELSE u[k[2][2]],
           expirationTime |-> add_ttl(0, IF k[1] = cpk THEN NoUser ELSE "u1", 1),
           productDetail |-> get_product_from_external_service(k[2][2], 0).product]]

\* acc: per entry, its quantity at the start plus the deltas of the writes
\* accepted since (since the entry was last deleted, if it was).
HistInit(tbl) ==
    [pre |-> EmptyTable, clean |-> FALSE, quiet |-> FALSE, qlen |-> 0,
     streak |-> 0, cart_id |-> "", user_id |-> NoUser, base |-> EmptyTable,
     first_post |-> EmptyTable, src |-> <<>>,
     acc |-> [k \in Keys |-> QuantityOf(tbl, k)]]

Init ==
    /\ table \in {InitTable(a, u) : a \in AnonCarts, u \in UserCarts}
    /\ queue = <<>>
    /\ now = 0
    /\ mig = MigIdle
    /\ chk = [s \in CheckoutSlots |-> ChkIdle]
    /\ last = Step("Init", "", NoUser, "", 0, {})
    /\ hist = HistInit(table)
    /\ ops = 0

Next ==
    \/ \E hasBody \in BOOLEAN, cart_id \in CartIds, user_sub \in UserIds \cup {NoUser},
          product_id \in ProductIds, quantity \in Deltas :
          AddToCart(hasBody, cart_id, user_sub, product_id, quantity)
    \/ \E cart_id \in CartIds, user_id \in UserIds \cup {NoUser} :
          MigrateStart(cart_id, user_id)
    \/ MigrateStartThread
    \/ MigrateSend
    \/ \E j \in 1..Len(Catalog), ok \in BOOLEAN : MigrateThread(j, ok)
    \/ MigrateFinish
    \/ \E s \in CheckoutSlots, user_id \in UserIds \cup {NoUser} :
          CheckoutStart(s, user_id)
    \/ \E s \in CheckoutSlots, k \in Keys : CheckoutDelete(s, k)
    \/ \E s \in CheckoutSlots : CheckoutReturn(s)
    \/ \E batch \in SUBSET (1..Len(queue)) : Reaper(batch)

Spec == Init /\ [][Next]_vars

\* The system with the queue's redeliveries, every queued message being
\* delivered again and again for as long as it stays in the queue.
LiveNext ==
    \/ Next
    \/ \E batch \in SUBSET (1..Len(queue)) : Redelivery(batch)

LiveSpec ==
    /\ Init
    /\ [][LiveNext]_vars
    /\ \A k \in Keys : WF_vars(DeliveryOf(k))

\* ====================================================================
\* Claims
\* ====================================================================
SrcQty(p) ==
    LET hits == {j \in DOMAIN mig.unauth_cart :
                    mig.unauth_cart[j].sk = ProductSk(p)}
    IN IF hits = {} THEN 0 ELSE mig.unauth_cart[CHOOSE j \in hits : TRUE].quantity

InSrc(p) == \E j \in DOMAIN mig.unauth_cart : mig.unauth_cart[j].sk = ProductSk(p)

QtyIn(cart, p) == IF ProductSk(p) \in DOMAIN cart THEN cart[ProductSk(p)] ELSE 0

\* The messages the migration in flight (or just finished) has sent.
Sent == SubSeq(queue, hist.qlen + 1, Len(queue))

\* C1: every stored cart entry, under every identity key, has quantity >= 0
\* in every reachable state, whatever AddItem deltas, migrations, checkouts
\* and delete-from-cart invocations interleave.
C1_NonNegative == \A k \in DOMAIN table : table[k].quantity >= 0

\* A removal was accepted and took an entry down to exactly 0.
C1_Witness ==
    /\ last.op = "AddToCart"
    /\ last.status = "200"
    /\ last.quantity < 0
    /\ \E k \in last.keys : Present(table, k) /\ table[k].quantity = 0

\* C2: an AddItem with delta < 0 whose target entry holds less than |delta|
\* (or does not exist) ends in an error and leaves the store as it was: no
\* entry created, and quantity, snapshot and expiry of every entry unchanged.
C2_RejectedRemoval ==
    [][(/\ last'.op = "AddToCart"
        /\ last'.quantity < 0
        /\ \A k \in last'.keys : QuantityOf(table, k) < Abs(last'.quantity))
       => (/\ last'.status = "ConditionalCheckFailedException"
           /\ table' = table)]_vars

\* A removal of more than an existing entry holds was rejected.
C2_Witness ==
    /\ last.op = "AddToCart"
    /\ last.status = "ConditionalCheckFailedException"
    /\ last.quantity < 0
    /\ \E k \in last.keys : Present(table, k) /\ table[k].quantity > 0

\* C3: after a Migrate that ran to completion with no failed merge and no
\* other writer, the user's quantity of every product is its quantity before
\* plus the anonymous cart's quantity at the source read (absent = 0), and an
\* entry exists exactly for the products that were in either cart.
C3_MigrationMerge ==
    (mig.pc = "done" /\ mig.status = "200" /\ hist.clean)
    => \A p \in Products :
          LET k == <<UserPk(mig.user_id), ProductSk(p)>>
          IN /\ QuantityOf(table, k) = QtyIn(hist.pre, p) + SrcQty(p)
             /\ Present(table, k) <=> (ProductSk(p) \in DOMAIN hist.pre \/ InSrc(p))

\* A finished clean migration that merged a product both carts held and left
\* alone a product only the user's cart held.
C3_Witness ==
    /\ mig.pc = "done" /\ mig.status = "200" /\ hist.clean
    /\ \E p \in Products : QtyIn(hist.pre, p) > 0 /\ SrcQty(p) > 0
    /\ \E p \in Products : QtyIn(hist.pre, p) > 0 /\ ~InSrc(p)

\* C4: a completed Migrate has sent exactly one message per source entry it
\* read, each carrying that entry's own pk and sk, all under cart#<cart_id>;
\* none references the user's or another identity, and an empty anonymous
\* cart yields no message.
C4_OneMessagePerSource ==
    (mig.pc = "done" /\ mig.status = "200")
    => /\ Len(Sent) = Len(mig.unauth_cart)
       /\ \A j \in DOMAIN mig.unauth_cart :
             /\ Sent[j].pk = mig.unauth_cart[j].pk
             /\ Sent[j].sk = mig.unauth_cart[j].sk
             /\ Sent[j].pk = CartPk(mig.cart_id)

\* A finished migration of two source entries into a non-empty user cart.
C4_Witness ==
    /\ mig.pc = "done" /\ mig.status = "200"
    /\ Len(mig.unauth_cart) = 2
    /\ Len(Sent) = 2
    /\ DOMAIN hist.pre # {}

\* C5: every successful AddItem without a credential sets the entry's expiry
\* to now + the default duration; every successful AddItem with a valid
\* credential, whatever the sign of delta, sets it to now + 7 days; every
\* entry a Migrate merge writes gets now + 30 days.
C5_TtlSelection ==
    [][/\ (last'.op = "AddToCart" /\ last'.status = "200")
          => \A k \in last'.keys :
                table'[k].expirationTime =
                   now + DaySeconds * (IF last'.user # NoUser THEN AuthDays
                                       ELSE DefaultDays)
       /\ (last'.op = "MigrateThread" /\ last'.status = "200")
          => \A k \in last'.keys :
                table'[k].expirationTime = now + DaySeconds * MigratedDays]_vars

\* C6: a Migrate or Checkout invoked without a resolvable user returns the
\* 400 outcome at once, and table and queue are after the call what they
\* were before it; the invocation is over, so nothing follows.
C6_UnauthorizedNoEffect ==
    [][(last'.op \in {"MigrateStart", "CheckoutStart"} /\ last'.user = NoUser)
       => (/\ last'.status = "400"
           /\ table' = table
           /\ queue' = queue
           /\ last'.op = "MigrateStart" => (mig'.pc = "done" /\ mig'.status = "400")
           /\ last'.op = "CheckoutStart"
              => \A s \in CheckoutSlots :
                    chk'[s] # chk[s]
                    => (/\ chk'[s].pc = "done"
                        /\ chk'[s].status = "400"
                        /\ chk'[s].pending = {}))]_vars

\* Both handlers have turned an unresolved user away, the table not empty.
C6_Witness ==
    /\ mig.pc = "done" /\ mig.status = "400"
    /\ chk[1].pc = "done" /\ chk[1].status = "400"
    /\ DOMAIN table # {}

\* C7: a Checkout that runs beside AddItem and Migrate writers (and no other
\* Checkout of the same user) finishes with every entry created under
\* user#<userId> after its query still in the table, and each of its deletes
\* removes only a key its query returned, under user#<userId>.
C7_CheckoutClearsReadSet ==
    [][/\ \A s \in CheckoutSlots :
            (chk[s].pc = "flush" /\ chk'[s].pc = "done" /\ chk[s].alone)
            => \A k \in chk[s].fresh : Present(table', k)
       /\ last'.op = "CheckoutDelete"
          => \A k \in (DOMAIN table) \ (DOMAIN table') :
                \E s \in CheckoutSlots :
                   /\ chk[s].pc = "flush"
                   /\ k[1] = UserPk(chk[s].user_id)
                   /\ \E j \in DOMAIN chk[s].cart_items :
                         k = <<chk[s].cart_items[j].pk, chk[s].cart_items[j].sk>>]_vars

\* A checkout that deleted what it read has returned, and an entry created
\* under the user's key after its query is in the table.
C7_Witness ==
    \E s \in CheckoutSlots :
       /\ chk[s].pc = "done" /\ chk[s].status = "200" /\ chk[s].alone
       /\ Len(chk[s].cart_items) > 0
       /\ chk[s].fresh # {}
       /\ \A k \in chk[s].fresh : Present(table, k)
       /\ \A j \in DOMAIN chk[s].cart_items :
             <<chk[s].cart_items[j].pk, chk[s].cart_items[j].sk>> \notin chk[s].fresh
             => ~Present(table, <<chk[s].cart_items[j].pk, chk[s].cart_items[j].sk>>)

\* C8: processing a DeferredDeletion message succeeds and leaves no entry
\* with the message's key in the table, whether or not the entry existed
\* (and so a redelivery succeeds again and changes nothing).
C8_ReaperDeletes ==
    (last.op = "Reaper" /\ last.keys # {})
    => (/\ last.status = "200"
        /\ \A k \in last.keys : ~Present(table, k))

\* C9 as stated: two Migrates in a row on the same source entries leave the
\* user's cart with the quantities one Migrate leaves.
C9_MigrateIdempotent ==
    (mig.pc = "done" /\ mig.status = "200" /\ hist.streak = 2)
    => CartQty(table, UserPk(mig.user_id)) = hist.first_post

\* C9 amended: n Migrates in a row on the same source entries, no merge
\* failing and nobody else writing, leave the user's quantity of every
\* product at its quantity before the first plus n times the source quantity.
C9_MigrateAccumulates ==
    (mig.pc = "done" /\ mig.status = "200" /\ hist.streak >= 1)
    => \A p \in Products :
          QuantityOf(table, <<UserPk(mig.user_id), ProductSk(p)>>)
             = QtyIn(hist.base, p) + hist.streak * SrcQty(p)

\* The second of two Migrates in a row has finished, the source not empty.
C9_Witness ==
    /\ mig.pc = "done" /\ mig.status = "200" /\ hist.streak = 2
    /\ \E p \in Products : SrcQty(p) > 0
    /\ hist.src = mig.unauth_cart

\* C10: an AddItem whose product the lookup does not find returns 404 and
\* changes nothing: every entry under every identity key is as before and
\* none is created.
C10_ProductNotFound ==
    [][(/\ last'.op = "AddToCart"
        /\ last'.status # "400"
        /\ ~get_product_from_external_service(last'.product_id, now).found)
       => (/\ last'.status = "404"
           /\ table' = table
           /\ queue' = queue)]_vars

\* An AddItem for an unknown product was turned away, the table not empty.
C10_Witness ==
    /\ last.op = "AddToCart"
    /\ last.status = "404"
    /\ last.product_id \notin Products
    /\ DOMAIN table # {}

\* C11: within one Migrate no message is enqueued until every per-item merge
\* of that invocation has completed (succeeded or failed): the step that
\* sends a message finds every worker thread of the invocation finished.
C11_JoinBeforeEnqueue ==
    [][last'.op = "MigrateSend"
       => \A j \in DOMAIN mig.threads : mig.threads[j] \in {"done", "failed"}]_vars

\* The migration has just returned 200; no AddItem or Checkout has written
\* since its source read, and no further handler invocation (so no further
\* AddItem) can start.
MigrateCompleted ==
    /\ mig.pc = "done" /\ mig.status = "200"
    /\ last.op = "MigrateFinish"
    /\ hist.quiet
    /\ ops = MaxOps

SourceAbsent ==
    \A j \in DOMAIN mig.unauth_cart :
       ~Present(table, <<mig.unauth_cart[j].pk, mig.unauth_cart[j].sk>>)

\* C12: once a Migrate has completed and no AddItem follows, every source
\* entry it read under cart#<cart_id> is eventually absent from the table,
\* the queue delivering each message until it is processed.  (A delivery on
\* which the handler raises leaves table and queue as they were, so a
\* behaviour that delivers the message for ever ends in stuttering steps.)
C12_EventualCleanup == MigrateCompleted ~> SourceAbsent

\* The worker thread of product p's source entry has applied its merge.
Merged(p) ==
    \E j \in DOMAIN mig.unauth_cart :
       mig.unauth_cart[j].sk = ProductSk(p) /\ mig.threads[j] = "done"

\* C13: a per-item merge that fails at the store neither stops nor undoes the
\* others: a Migrate that got past identity resolution ends with status 200,
\* every worker thread finished (applied or failed), and, nobody else having
\* written, the user's quantity of every product is its quantity before plus
\* the source quantity of exactly the merges that were applied.
C13_MergeWhatYouCan ==
    (mig.pc = "done" /\ mig.status # "400")
    => /\ mig.status = "200"
       /\ \A j \in DOMAIN mig.threads : mig.threads[j] \in {"done", "failed"}
       /\ hist.quiet
          => \A p \in Products :
                QuantityOf(table, <<UserPk(mig.user_id), ProductSk(p)>>)
                   = QtyIn(hist.pre, p) + (IF Merged(p) THEN SrcQty(p) ELSE 0)

\* A finished migration of two source entries: one merge failed, the other
\* was applied and its quantity is in the user's cart.
C13_Witness ==
    /\ mig.pc = "done" /\ mig.status = "200" /\ hist.quiet
    /\ \E j \in DOMAIN mig.threads : mig.threads[j] = "failed"
    /\ \E p \in Products :
          /\ Merged(p) /\ SrcQty(p) > 0
          /\ QuantityOf(table, <<UserPk(mig.user_id), ProductSk(p)>>)
                = QtyIn(hist.pre, p) + SrcQty(p)

\* C14: whatever the interleaving of AddItem calls and Migrate merges on one
\* entry, its stored quantity is its quantity at the start (or 0 since it was
\* last deleted) plus the deltas of all the writes accepted since: no
\* accepted delta is lost or counted twice.
C14_NoLostUpdate == \A k \in Keys : QuantityOf(table, k) = hist.acc[k]

\* A merge has just been applied to an entry that an AddItem wrote after the
\* migration took its reads: the entry holds neither what the migration saw
\* before plus the source quantity, and it holds more than 0.
C14_Witness ==
    /\ last.op = "MigrateThread" /\ last.status = "200"
    /\ ~hist.quiet
    /\ last.quantity > 0
    /\ \E k \in last.keys :
          /\ table[k].quantity # QtyIn(hist.pre, last.product_id) + last.quantity
          /\ table[k].quantity > last.quantity

MigrateSteps ==
    {"MigrateStart", "MigrateStartThread", "MigrateSend", "MigrateThread",
     "MigrateFinish"}

\* C15: no step of a Migrate invocation changes an entry under cart#...:
\* each leaves presence, quantity, snapshot and expiry of every such entry
\* as they were, and the only entries it writes are entries under
\* user#<userId> for the source entries' products.
C15_MigrateLeavesSource ==
    [][last'.op \in MigrateSteps
       => \A k \in Keys :
             (Present(table', k) # Present(table, k)
                \/ (Present(table, k) /\ table'[k] # table[k]))
             => /\ k[1] = UserPk(mig.user_id)
                /\ \E j \in DOMAIN mig.unauth_cart : mig.unauth_cart[j].sk = k[2]]_vars

\* A migration of a non-empty anonymous cart has merged every entry and
\* returned, and every source entry is in the table exactly as it was read.
C15_Witness ==
    /\ mig.pc = "done" /\ mig.status = "200"
    /\ Len(mig.unauth_cart) > 0
    /\ \A j \in DOMAIN mig.threads : mig.threads[j] = "done"
    /\ \A j \in DOMAIN mig.unauth_cart :
          LET it == mig.unauth_cart[j]
          IN Present(table, <<it.pk, it.sk>>) /\ ItemAt(table, it.pk, it.sk) = it

\* Entry k is in tbl2 as it is in tbl1, or in neither.
SameEntry(tbl1, tbl2, k) ==
    /\ Present(tbl1, k) <=> Present(tbl2, k)
    /\ Present(tbl1, k) => tbl1[k] = tbl2[k]

\* C16: a successful AddItem with a valid user identity leaves every entry
\* but (user#<userId>, product#<productId>) as it was, the cart#... entries
\* included; one without leaves every entry but one (cart#<cartId>,
\* product#<productId>) as it was, the user#... entries included; the entry
\* is in the table afterwards; and no AddItem, whatever its outcome, changes
\* the queue.
C16_AddTouchesOneRow ==
    [][last'.op = "AddToCart"
       => /\ queue' = queue
          /\ last'.status = "200"
             => \E pk \in (IF last'.user # NoUser
                           THEN {UserPk(last'.user)}
                           ELSE {CartPk(c) : c \in CartIds}) :
                   /\ Present(table', <<pk, ProductSk(last'.product_id)>>)
                   /\ \A k \in Keys \ {<<pk, ProductSk(last'.product_id)>>} :
                         SameEntry(table, table', k)]_vars

\* An authenticated AddItem has added to the user's entry of a product that
\* the anonymous cart holds too, with a different quantity.
C16_Witness ==
    /\ last.op = "AddToCart" /\ last.status = "200"
    /\ last.user \in UserIds
    /\ last.quantity > 0
    /\ \E c \in CartIds :
          /\ Present(table, <<CartPk(c), ProductSk(last.product_id)>>)
          /\ table[<<CartPk(c), ProductSk(last.product_id)>>].quantity
                # table[<<UserPk(last.user), ProductSk(last.product_id)>>].quantity

\* The quantity of product p that anonymous cart c and user u's cart hold
\* together.
Total(tbl, c, u, p) ==
    QuantityOf(tbl, <<CartPk(c), ProductSk(p)>>)
       + QuantityOf(tbl, <<UserPk(u), ProductSk(p)>>)

\* C17: across a migration and its cleanup no accepted delta is lost or
\* gained: per product, the quantity under cart#<cart_id> plus the quantity
\* under user#<user_id> is always the sum of the accepted AddItem deltas, so
\* a step of Migrate or of the reaper leaves that sum as it was.
C17_Conservation ==
    [][last'.op \in MigrateSteps \cup {"Reaper"}
       => \A c \in CartIds, u \in UserIds, p \in Products :
             Total(table', c, u, p) = Total(table, c, u, p)]_vars

\* The running (or last) migration read entry k and its merge was applied.
MergedKey(k) ==
    \E j \in DOMAIN mig.unauth_cart :
       /\ <<mig.unauth_cart[j].pk, mig.unauth_cart[j].sk>> = k
       /\ mig.threads[j] = "done"

ReadQty(s, k) ==
    LET j == CHOOSE j \in DOMAIN chk[s].cart_items :
                <<chk[s].cart_items[j].pk, chk[s].cart_items[j].sk>> = k
    IN chk[s].cart_items[j].quantity

\* C19: every entry a Checkout deletes holds, at the moment of the delete,
\* the quantity the Checkout read and returns for it, also when an AddItem
\* or a Migrate merge wrote the entry between the read and the delete.
C19_ReturnedIsCleared ==
    [][\A s \in CheckoutSlots :
          (chk[s].pc = "flush" /\ chk'[s].pending # chk[s].pending)
          => \A k \in chk[s].pending \ chk'[s].pending :
                (Present(table, k) /\ ~Present(table', k))
                => table[k].quantity = ReadQty(s, k)]_vars

=============================================================================
